---- MODULE Spec2Model ----
(***************************************************************************)
(* quill/detail/misc/TypeTraitsCopyableTest.h                              *)
(*                                                                         *)
(* The header is a compile-time classifier: is_copyable<T> decides whether *)
(* an object of type T may be copied into the logging queue.  A type is a  *)
(* finite tree (a record below); a trait is an operator on it whose value  *)
(* is "true", "false", or "ill-formed" when instantiating the trait is a   *)
(* hard compile error (an error outside the immediate context of a         *)
(* substitution, which SFINAE does not absorb).                            *)
(***************************************************************************)
EXTENDS Naturals, Sequences, FiniteSets, TLC

\* Nesting depth of the candidate types the caller composes.
MaxDepth == 2
\* Nesting depth of the candidate types of the qualifier specification.
MaxQualDepth == 1
\* Length of the predicate packs handed to the combinators.
MaxPreds == 6

VARIABLES
  T,        \* the candidate type, as written by the caller
  pc,       \* "start" | "top" | "nested" | "eval" | "done"; "pack" (combinators)
  verdict,  \* is_copyable_v<T>: "none" until classified
  Q,        \* the candidate with cv-qualifiers added (qualifier specification)
  stack,    \* pending is_copyable<...> instantiations (evaluation machine)
  ret,      \* value of the instantiation that just completed
  preds     \* B1::value .. Bn::value of a predicate pack (combinators)

vars == <<T, pc, verdict, Q, stack, ret, preds>>

ILL == "ill-formed"
Values == {"true", "false", ILL}

BoolConst(b) == IF b THEN "true" ELSE "false"

-----------------------------------------------------------------------------
(***************************************************************************)
(* Boolean combinators.  A pack is the sequence of the operands' ::value;  *)
(* an operand that is never named by ::value is never instantiated, so an  *)
(* ill-formed operand matters only when the recursion reaches it.          *)
(***************************************************************************)
bool_constant(b) == BoolConst(b)

RECURSIVE conjunction(_)
\* Variant: the branches of the conditional are those of disjunction.
conjunction_Swapped(Bs) ==
  IF Len(Bs) = 0 THEN "true"
  ELSE IF Len(Bs) = 1 THEN Bs[1]
  ELSE IF Bs[1] = ILL THEN ILL
  ELSE IF Bs[1] = "true" THEN Bs[1]
  ELSE conjunction(Tail(Bs))

conjunction(Bs) ==
  IF Len(Bs) = 0 THEN "true"
  ELSE IF Len(Bs) = 1 THEN Bs[1]
  ELSE IF Bs[1] = ILL THEN ILL
  ELSE IF Bs[1] = "true" THEN conjunction(Tail(Bs))
  ELSE Bs[1]

RECURSIVE disjunction(_)
disjunction(Bs) ==
  IF Len(Bs) = 0 THEN "false"
  ELSE IF Len(Bs) = 1 THEN Bs[1]
  ELSE IF Bs[1] = ILL THEN ILL
  ELSE IF Bs[1] = "true" THEN Bs[1]
  ELSE disjunction(Tail(Bs))

negation(B) ==
  IF B = ILL THEN ILL ELSE bool_constant(~(B = "true"))

-----------------------------------------------------------------------------
(***************************************************************************)
(* Types.  kind is the shape the standard traits and the partial           *)
(* specialisations tell apart; the flags are what the member probes read.  *)
(*   value_type : <<>> when T has no member value_type, else <<that type>> *)
(*   elems      : first_type, second_type of a pair; elements of a tuple   *)
(***************************************************************************)
CVs == {{}, {"const"}, {"volatile"}, {"const", "volatile"}}

Mk(kind, trivial, tag, iterator, value_type, elems) ==
  [kind |-> kind, cv |-> {}, trivial |-> trivial, tag |-> tag,
   iterator |-> iterator, value_type |-> value_type, elems |-> elems]

Arithmetic == Mk("arithmetic", TRUE, FALSE, FALSE, <<>>, <<>>)
Reference == Mk("reference", FALSE, FALSE, FALSE, <<>>, <<>>)
BasicString == Mk("basic_string", FALSE, FALSE, TRUE, <<Arithmetic>>, <<>>)
Class(trivial, tag, iterator, value_type) ==
  Mk("class", trivial, tag, iterator, value_type, <<>>)
Pair(a, b) == Mk("pair", FALSE, FALSE, FALSE, <<>>, <<a, b>>)
Tuple(es) == Mk("tuple", FALSE, FALSE, FALSE, <<>>, es)

Qualify(t, cv) == [t EXCEPT !.cv = t.cv \cup cv]

\* Every nested position (first_type, second_type, value_type, at any depth)
\* qualified; the character type of a basic_string is left alone.
RECURSIVE QualifyAll(_, _)
QualifyAll(t, cv) ==
  IF t.kind = "basic_string" THEN Qualify(t, cv)
  ELSE Qualify([t EXCEPT
         !.value_type = [i \in DOMAIN t.value_type |-> QualifyAll(t.value_type[i], cv)],
         !.elems = [i \in DOMAIN t.elems |-> QualifyAll(t.elems[i], cv)]], cv)

QualifyNested(t, cv) ==
  IF t.kind = "basic_string" THEN t
  ELSE [t EXCEPT
         !.value_type = [i \in DOMAIN t.value_type |-> QualifyAll(t.value_type[i], cv)],
         !.elems = [i \in DOMAIN t.elems |-> QualifyAll(t.elems[i], cv)]]

Components(t) ==
  IF t.kind = "basic_string" THEN {}
  ELSE {t.elems[i] : i \in DOMAIN t.elems}
         \cup {t.value_type[i] : i \in DOMAIN t.value_type}

Leaves ==
  {Arithmetic, Reference, BasicString}
    \cup {Class(tr, tg, it, <<>>) : tr \in BOOLEAN, tg \in BOOLEAN, it \in BOOLEAN}

Max(S) == CHOOSE x \in S : \A y \in S : y <= x

RECURSIVE Depth(_)
Depth(t) ==
  LET kids == Components(t)
  IN  IF kids = {} THEN 0 ELSE 1 + Max({Depth(k) : k \in kids})

\* The shapes a well-formed container exposes: iterator together with value_type.
RECURSIVE ListedShape(_)
ListedShape(t) ==
  /\ t.iterator => t.value_type # <<>>
  /\ \A k \in Components(t) : ListedShape(k)

-----------------------------------------------------------------------------
(***************************************************************************)
(* Standard library traits, as the header uses them.                       *)
(***************************************************************************)
remove_cv_t(t) == [t EXCEPT !.cv = {}]
is_trivial(t) == BoolConst(t.trivial)
is_arithmetic(t) == BoolConst(t.kind = "arithmetic")
is_class(t) == BoolConst(t.kind \in {"class", "basic_string", "pair", "tuple"})

first_type(t) == t.elems[1]
second_type(t) == t.elems[2]
has_value_type(t) == t.value_type # <<>>
value_type(t) == t.value_type[1]

(***************************************************************************)
(* Detection traits of the header.  A partial specialisation written on a  *)
(* template-id (basic_string<...>, pair<...>) matches the unqualified type *)
(* only; a member probe (typename T::x) looks through cv-qualifiers.       *)
(***************************************************************************)
is_copy_loggable(t) == BoolConst(t.tag)
is_copy_loggable_v(t) == is_copy_loggable(remove_cv_t(t))

is_string(t) == BoolConst(t.kind = "basic_string" /\ t.cv = {})
is_string_v(t) == is_string(remove_cv_t(t))

is_pair(t) == BoolConst(t.kind = "pair" /\ t.cv = {})
is_pair_v(t) == is_pair(remove_cv_t(t))

is_container_helper(t) == BoolConst(t.iterator)

is_container(t) ==
  IF negation(is_string(t)) = "true" THEN is_container_helper(t) ELSE "false"
is_container_v(t) == is_container(remove_cv_t(t))

\* Variant: the tag alone opts in, the triviality test is missing.
is_user_defined_copyable_NoTrivialTest(t) ==
  conjunction(<<is_class(t), is_copy_loggable(t)>>)

is_user_defined_copyable(t) ==
  conjunction(<<is_class(t), negation(is_trivial(t)), is_copy_loggable(t)>>)

RECURSIVE is_copyable(_)

is_copyable_pair(t) ==
  IF is_pair_v(t) = "true"
  THEN conjunction(<<is_copyable(remove_cv_t(first_type(t))),
                     is_copyable(remove_cv_t(second_type(t)))>>)
  ELSE "false"
is_copyable_pair_v(t) == is_copyable_pair(remove_cv_t(t))

\* Variant: every container passes, whatever its element type.
is_copyable_container_AnyElement(t) ==
  IF is_container_v(t) = "true"
  THEN IF has_value_type(t) THEN "true" ELSE ILL
  ELSE "false"

\* Variant: the element is tested by the leaf rules only, not by is_copyable.
is_copyable_container_NoRecursion(t) ==
  IF is_container_v(t) = "true"
  THEN IF has_value_type(t)
       THEN LET e == remove_cv_t(value_type(t))
            IN  disjunction(<<is_trivial(e), is_arithmetic(e), is_string(e)>>)
       ELSE ILL
  ELSE "false"

is_copyable_container(t) ==
  IF is_container_v(t) = "true"
  THEN IF has_value_type(t) THEN is_copyable(remove_cv_t(value_type(t))) ELSE ILL
  ELSE "false"
is_copyable_container_v(t) == is_copyable_container(remove_cv_t(t))

\* Variant: the string rule is missing from the filter.
filter_copyable_NoString(t) ==
  disjunction(<<is_trivial(t), is_arithmetic(t),
                is_copyable_pair(t), is_copyable_container(t),
                is_user_defined_copyable(t)>>)

filter_copyable(t) ==
  disjunction(<<is_trivial(t), is_arithmetic(t), is_string(t),
                is_copyable_pair(t), is_copyable_container(t),
                is_user_defined_copyable(t)>>)

is_copyable(t) ==
  LET f == filter_copyable(t)
  IN  IF f = ILL THEN ILL ELSE IF f = "true" THEN "true" ELSE "false"

\* Variant: the qualifiers of the candidate are not removed.
is_copyable_v_NoStrip(t) == is_copyable(t)

is_copyable_v(t) == is_copyable(remove_cv_t(t))

-----------------------------------------------------------------------------
(***************************************************************************)
(* The caller composes a candidate type, bottom up, from a leaf: it may    *)
(* put it in a pair beside a leaf, make it the value_type of a class, or   *)
(* make it the head of a tuple (a tuple is not composed further).  Then    *)
(* is_copyable_v is evaluated for the candidate.                           *)
(***************************************************************************)
Init ==
  /\ T \in Leaves
  /\ Q = T
  /\ pc = "start"
  /\ verdict = "none"
  /\ stack = <<>>
  /\ ret = "none"
  /\ preds = <<>>

Composable(maxDepth) ==
  /\ pc = "start"
  /\ T.kind # "tuple"
  /\ Depth(T) < maxDepth

WrapPair(maxDepth) ==
  /\ Composable(maxDepth)
  /\ \E l \in Leaves : T' \in {Pair(T, l), Pair(l, T)}
  /\ Q' = T'
  /\ UNCHANGED <<pc, verdict, stack, ret, preds>>

WrapClass(maxDepth) ==
  /\ Composable(maxDepth)
  /\ \E tr \in BOOLEAN, tg \in BOOLEAN, it \in BOOLEAN : T' = Class(tr, tg, it, <<T>>)
  /\ Q' = T'
  /\ UNCHANGED <<pc, verdict, stack, ret, preds>>

WrapTuple(maxDepth) ==
  /\ Composable(maxDepth)
  /\ \/ T' = Tuple(<<T>>)
     \/ \E l \in Leaves : T' = Tuple(<<T, l>>)
  /\ Q' = T'
  /\ UNCHANGED <<pc, verdict, stack, ret, preds>>

Compose(maxDepth) == WrapPair(maxDepth) \/ WrapClass(maxDepth) \/ WrapTuple(maxDepth)

Classify ==
  /\ pc \in {"start", "top", "nested"}
  /\ verdict' = is_copyable_v(Q)
  /\ pc' = "done"
  /\ UNCHANGED <<T, Q, stack, ret, preds>>

Next == Compose(MaxDepth) \/ Classify

Spec == Init /\ [][Next]_vars

-----------------------------------------------------------------------------
(***************************************************************************)
(* The same classification of a candidate the caller has cv-qualified, at  *)
(* the top level, in its nested positions, or both.  T keeps the           *)
(* unqualified type, Q is the type handed to is_copyable_v.                *)
(***************************************************************************)
QualifyTop ==
  /\ pc = "start"
  /\ \E cv \in CVs \ {{}} : Q' = Qualify(Q, cv)
  /\ pc' = "top"
  /\ UNCHANGED <<T, verdict, stack, ret, preds>>

QualifyComponents ==
  /\ pc \in {"start", "top"}
  /\ Components(T) # {}
  /\ \E cv \in CVs \ {{}} : Q' = QualifyNested(Q, cv)
  /\ pc' = "nested"
  /\ UNCHANGED <<T, verdict, stack, ret, preds>>

QualNext == Compose(MaxQualDepth) \/ QualifyTop \/ QualifyComponents \/ Classify

QualSpec == Init /\ [][QualNext]_vars

-----------------------------------------------------------------------------
(***************************************************************************)
(* The combinators applied to a pack of well-formed predicates.  A         *)
(* combinator's result is itself a predicate and may start a new pack.     *)
(***************************************************************************)
CombInit ==
  /\ preds = <<>>
  /\ pc = "pack"
  /\ T = Arithmetic
  /\ Q = Arithmetic
  /\ verdict = "none"
  /\ stack = <<>>
  /\ ret = "none"

AddPredicate ==
  /\ Len(preds) < MaxPreds
  /\ \E b \in BOOLEAN : preds' = Append(preds, bool_constant(b))
  /\ UNCHANGED <<T, pc, verdict, Q, stack, ret>>

NestConjunction ==
  /\ preds' = <<conjunction(preds)>>
  /\ UNCHANGED <<T, pc, verdict, Q, stack, ret>>

NestDisjunction ==
  /\ preds' = <<disjunction(preds)>>
  /\ UNCHANGED <<T, pc, verdict, Q, stack, ret>>

NestNegation ==
  /\ Len(preds) >= 1
  /\ preds' = <<negation(Head(preds))>> \o Tail(preds)
  /\ UNCHANGED <<T, pc, verdict, Q, stack, ret>>

CombNext == AddPredicate \/ NestConjunction \/ NestDisjunction \/ NestNegation

CombSpec == CombInit /\ [][CombNext]_vars

-----------------------------------------------------------------------------
(***************************************************************************)
(* The instantiations the compiler performs for is_copyable_v<T>, one      *)
(* is_copyable<...> per stack frame.  A frame walks filter_copyable's      *)
(* disjunction left to right: the three leaf rules, the pair rule (first   *)
(* then second element), the container rule (the element), the tag rule.   *)
(***************************************************************************)
Frame(t, at) == [type |-> t, at |-> at]
Top == stack[Len(stack)]
Below == SubSeq(stack, 1, Len(stack) - 1)

\* is_copyable_v<T> names is_copyable<remove_cv_t<T>>::value.
Begin ==
  /\ pc = "start"
  /\ stack' = <<Frame(remove_cv_t(Q), "enter")>>
  /\ pc' = "eval"
  /\ UNCHANGED <<T, Q, verdict, ret, preds>>

\* is_copyable<t> is complete with value v: the frame is popped.
Return(v) ==
  /\ stack' = Below
  /\ ret' = v
  /\ IF Len(stack) = 1
     THEN pc' = "done" /\ verdict' = v
     ELSE UNCHANGED <<pc, verdict>>

\* A hard error ends the translation unit.
Abort ==
  /\ stack' = <<>>
  /\ ret' = ILL
  /\ pc' = "done"
  /\ verdict' = ILL

\* Variant: the nested instantiation is of the type itself, not its component.
Descend_SameType(child, at) ==
  /\ stack' = Append(Below, Frame(Top.type, at)) \o <<Frame(Top.type, "enter")>>
  /\ ret' = "none"
  /\ UNCHANGED <<pc, verdict>>

\* is_copyable<child> is needed by the frame on top, which waits at `at`.
Descend(child, at) ==
  /\ stack' = Append(Below, Frame(Top.type, at)) \o <<Frame(remove_cv_t(child), "enter")>>
  /\ ret' = "none"
  /\ UNCHANGED <<pc, verdict>>

TagRule(t) == Return(is_user_defined_copyable(t))

ContainerRule(t) ==
  IF is_container_v(t) = "true"
  THEN IF has_value_type(t) THEN Descend(value_type(t), "element") ELSE Abort
  ELSE TagRule(t)

Instantiate ==
  /\ pc = "eval"
  /\ Top.at = "enter"
  /\ LET t == Top.type
     IN  IF disjunction(<<is_trivial(t), is_arithmetic(t), is_string(t)>>) = "true"
         THEN Return("true")
         ELSE IF is_pair_v(t) = "true"
         THEN Descend(first_type(t), "first")
         ELSE ContainerRule(t)
  /\ UNCHANGED <<T, Q, preds>>

FirstDone ==
  /\ pc = "eval"
  /\ Top.at = "first"
  /\ IF ret = "true"
     THEN Descend(second_type(Top.type), "second")
     ELSE ContainerRule(Top.type)
  /\ UNCHANGED <<T, Q, preds>>

SecondDone ==
  /\ pc = "eval"
  /\ Top.at = "second"
  /\ IF ret = "true" THEN Return("true") ELSE ContainerRule(Top.type)
  /\ UNCHANGED <<T, Q, preds>>

ElementDone ==
  /\ pc = "eval"
  /\ Top.at = "element"
  /\ IF ret = "true" THEN Return("true") ELSE TagRule(Top.type)
  /\ UNCHANGED <<T, Q, preds>>

Evaluate == Instantiate \/ FirstDone \/ SecondDone \/ ElementDone

EvalNext == Compose(MaxDepth) \/ Begin \/ Evaluate

\* The compiler carries an instantiation it has begun through to its end.
EvalSpec == Init /\ [][EvalNext]_vars /\ WF_vars(Evaluate)

-----------------------------------------------------------------------------
(***************************************************************************)
(* Properties.                                                             *)
(***************************************************************************)
Plain == Class(FALSE, FALSE, FALSE, <<>>)
Vector(e) == Class(FALSE, FALSE, TRUE, <<e>>)
Copyable(t) == is_copyable_v(t) = "true"
AnyOfSix(t) ==
  "true" \in {is_trivial(t), is_arithmetic(t), is_string(t), is_copyable_pair(t),
              is_copyable_container(t), is_user_defined_copyable(t)}

C2_Total ==
  pc = "done" =>
     /\ verdict \in {"true", "false"}
     /\ T.kind # "pair" => is_copyable_pair_v(T) = "false"
     /\ ~(T.iterator /\ has_value_type(T)) => is_copyable_container_v(T) = "false"

\* C3 as stated: a non-trivial class type that does not declare copy_loggable
\* is never classified copyable, even when it exposes iterator and a value_type
\* that is copyable.
C3_UntaggedNeverCopyable ==
  (pc = "done" /\ T.kind = "class" /\ ~T.trivial /\ ~T.tag) => verdict # "true"

\* C3 as amended: a non-trivial class type that does not declare copy_loggable
\* is classified copyable exactly when it is a std::basic_string, a std::pair
\* of two copyable types, or exposes iterator together with a value_type that
\* is copyable; without an iterator member (and not a string or pair) it is
\* never classified copyable.
C3_UntaggedCopyableOnlyStructurally ==
  (pc = "done" /\ is_class(T) = "true" /\ ~T.trivial /\ ~T.tag) =>
     ((verdict = "true") <=>
        \/ T.kind = "basic_string"
        \/ T.kind = "pair" /\ \A i \in DOMAIN T.elems : Copyable(T.elems[i])
        \/ T.iterator /\ has_value_type(T) /\ Copyable(value_type(T)))

C3_Witness ==
  /\ pc = "done"
  /\ T.kind = "class" /\ ~T.trivial /\ ~T.tag
  /\ T.iterator /\ has_value_type(T) /\ Copyable(value_type(T))
  /\ verdict = "true"

\* C4: the verdict does not depend on const/volatile qualification, on the
\* candidate itself or on its nested positions: the qualified candidate Q gets
\* the verdict of the unqualified T.
C4_QualifiersIgnored ==
  pc = "done" => verdict = is_copyable_v(T)

C4_Witness ==
  /\ pc = "done"
  /\ Q.cv = {"const", "volatile"}
  /\ T.kind = "pair"
  /\ \A i \in DOMAIN Q.elems : Q.elems[i].cv = {"const"}
  /\ Q.elems[1].kind = "basic_string"
  /\ verdict = "true"

\* C5: for a container T (not a basic_string, exposes iterator) with element
\* type value_type, is_copyable_container<T> equals is_copyable of the element
\* type at every nesting depth: copyable elements make the container copyable,
\* a non-copyable element makes the container rule false (and a plain
\* container not copyable); a basic_string is never a container.
C5_ContainerFollowsElement ==
  pc = "done" =>
     /\ T.kind = "basic_string" =>
          is_container_v(T) = "false" /\ is_copyable_container_v(T) = "false"
     /\ (T.kind = "class" /\ T.iterator /\ has_value_type(T)) =>
          /\ is_container_v(T) = "true"
          /\ is_copyable_container_v(T) = is_copyable_v(value_type(T))
          /\ Copyable(value_type(T)) => verdict = "true"
          /\ (is_copyable_v(value_type(T)) = "false" /\ ~T.trivial /\ ~T.tag)
               => verdict = "false"

C5_Witness ==
  /\ pc = "done"
  /\ T = Vector(Vector(Arithmetic))
  /\ is_copyable_container_v(T) = "true"
  /\ verdict = "true"

\* C6: is_copyable_v<std::pair<A,B>> is true when is_copyable_v<A> and
\* is_copyable_v<B> are both true and false when at least one of them is not
\* copyable.
C6_PairIsConjunction ==
  (pc = "done" /\ T.kind = "pair") =>
     /\ (Copyable(first_type(T)) /\ Copyable(second_type(T))) => verdict = "true"
     /\ (is_copyable_v(first_type(T)) = "false" \/ is_copyable_v(second_type(T)) = "false")
          => verdict = "false"

\* C7: is_user_defined_copyable<T> is true iff T is a class, is not trivial
\* and declares copy_loggable; a non-trivial class that is not copyable without
\* the tag is copyable with it; a trivial type is copyable with or without it.
C7_TagOptsIn ==
  pc = "done" =>
     /\ (is_user_defined_copyable(T) = "true")
          <=> (is_class(T) = "true" /\ ~T.trivial /\ T.tag)
     /\ (T.kind = "class" /\ ~T.trivial /\ ~T.tag /\ verdict = "false")
          => Copyable([T EXCEPT !.tag = TRUE])
     /\ T.trivial
          => verdict = "true" /\ Copyable([T EXCEPT !.tag = ~T.tag])

C7_Witness ==
  /\ pc = "done"
  /\ T = Vector(Plain)
  /\ verdict = "false"
  /\ is_copyable_v([T EXCEPT !.tag = TRUE]) = "true"

\* C8: a std::tuple whose element types are all copyable is classified
\* copyable.
C8_TupleOfCopyable ==
  (pc = "done" /\ T.kind = "tuple" /\ \A i \in DOMAIN T.elems : Copyable(T.elems[i]))
     => verdict = "true"

\* C9: conjunction of a pack is the AND of its values (true for the empty
\* pack), disjunction the OR (false for the empty pack), negation the NOT, and
\* a combinator over combinators has the value of the nested expression.
AllOf(Bs) == \A i \in DOMAIN Bs : Bs[i] = "true"
AnyOf(Bs) == \E i \in DOMAIN Bs : Bs[i] = "true"

C9_Combinators ==
  pc = "pack" =>
     /\ conjunction(preds) = BoolConst(AllOf(preds))
     /\ disjunction(preds) = BoolConst(AnyOf(preds))
     /\ \A i \in DOMAIN preds : negation(preds[i]) = BoolConst(preds[i] # "true")
     /\ conjunction(<<disjunction(preds), negation(conjunction(preds))>>)
          = BoolConst(AnyOf(preds) /\ ~AllOf(preds))
     /\ disjunction(<<negation(disjunction(preds)), conjunction(preds)>>)
          = BoolConst(~AnyOf(preds) \/ AllOf(preds))

C9_Witness ==
  /\ pc = "pack"
  /\ preds = <<"true", "true", "false", "true">>
  /\ conjunction(preds) = "false"
  /\ disjunction(preds) = "true"

\* C10: evaluating is_copyable<T> terminates: every nested instantiation is
\* of a strictly shallower type than the one that requires it, and the
\* evaluation ends with the verdict.
StrictlyShallower ==
  \A i \in 1..(Len(stack) - 1) : Depth(stack[i + 1].type) < Depth(stack[i].type)

\* Upper bound on the steps is_copyable<t> takes: one for the type itself and,
\* for each component, its own steps and the step that consumes its value.
RECURSIVE Work(_)
Work(t) ==
  LET RECURSIVE Sum(_)
      Sum(ts) == IF ts = <<>> THEN 0 ELSE 1 + Work(Head(ts)) + Sum(Tail(ts))
  IN  IF t.kind = "basic_string" THEN 1 ELSE 1 + Sum(t.elems) + Sum(t.value_type)

\* Steps a frame still owes once the instantiation above it has returned.
Remaining(f) ==
  IF f.at = "enter" THEN Work(f.type)
  ELSE IF f.at = "first" THEN 2 + Work(second_type(f.type))
  ELSE 1

RECURSIVE Variant(_)
Variant(st) == IF st = <<>> THEN 0 ELSE Remaining(Head(st)) + Variant(Tail(st))

C10_Terminates ==
  /\ [](pc = "eval" =>
          /\ StrictlyShallower
          /\ ENABLED Evaluate)
  /\ [][Evaluate => Variant(stack') < Variant(stack)]_vars
  /\ [][(pc = "eval" /\ pc' = "done") => (stack' = <<>> /\ verdict' = is_copyable_v(T))]_vars

\* The same under weak fairness of the evaluation: it reaches the verdict.
EvaluationEnds ==
  (pc = "eval") ~> (pc = "done" /\ stack = <<>> /\ verdict = is_copyable_v(T))

C10_Witness ==
  /\ pc = "eval"
  /\ Len(stack) = 3
  /\ T = Vector(Vector(Arithmetic))

====
